---- MODULE Spec2Model ----
(***************************************************************************)
(* Design-token generators of the style prelude (src/vite.config.js,       *)
(* lines 52-264): the mixins generate-palette, generate-layouts-overlay,   *)
(* font-sizes, font-weights, flex-centered and the function scale.         *)
(*                                                                         *)
(* Every operation is a pure transformation.  The state is one use of a    *)
(* mixin or of the function by a style sheet: which one, with which        *)
(* arguments, whether it has been evaluated yet, and what it emitted       *)
(* (class rules, custom property declarations, a return value, an error    *)
(* that stops the compilation).                                            *)
(*                                                                         *)
(* Sass numbers are modelled as exact rationals <<n, d>> in lowest terms   *)
(* with d > 0, colours as records of four rationals (red, green, blue in   *)
(* 0..255 and alpha in 0..1).  A declaration keeps its value as the Sass   *)
(* value that the interpolation #{...} writes out.                         *)
(***************************************************************************)
EXTENDS Integers, Sequences, FiniteSets, TLC

VARIABLES mixin, args, pc, rules, decls, ret, error

vars == <<mixin, args, pc, rules, decls, ret, error>>

(***************************************************************************)
(* Bounds of the explored inputs.                                          *)
(***************************************************************************)
\* channels of the base colours are the ChannelSteps+1 evenly spread values of 0..255
ChannelSteps == 3
\* alphas of the base colours are 1, 3/4, ... down to (4 - AlphaSteps)/4
AlphaSteps == 2
\* multiples handed to scale are the tenths in -MaxMultiple..MaxMultiple, and 1/4, 1/3
MaxMultiple == 3

(***************************************************************************)
(* Sass number arithmetic, exact.                                          *)
(***************************************************************************)
Abs(x) == IF x < 0 THEN -x ELSE x

RECURSIVE GCD(_, _)
GCD(a, b) == IF b = 0 THEN a ELSE GCD(b, a % b)

Rat(n, d) ==
    LET g == GCD(Abs(n), Abs(d))
        s == IF d < 0 THEN -1 ELSE 1
    IN  <<(s * n) \div g, (s * d) \div g>>

Whole(n) == <<n, 1>>

RAdd(x, y) == Rat(x[1] * y[2] + y[1] * x[2], x[2] * y[2])
RSub(x, y) == Rat(x[1] * y[2] - y[1] * x[2], x[2] * y[2])
RMul(x, y) == Rat(x[1] * y[1], x[2] * y[2])
RDiv(x, y) == Rat(x[1] * y[2], x[2] * y[1])
RLeq(x, y) == x[1] * y[2] <= y[1] * x[2]
RMax(x, y) == IF RLeq(x, y) THEN y ELSE x
RMin(x, y) == IF RLeq(x, y) THEN x ELSE y

\* a Sass number: a value with a unit ("" when unitless)
Num(n, u) == [value |-> Whole(n), unit |-> u]

\* number * number with at most one of them carrying a unit
Times(x, y) ==
    [value |-> RMul(x.value, y.value),
     unit  |-> IF x.unit = "" THEN y.unit ELSE x.unit]

(***************************************************************************)
(* Colours and the sass:color functions the mixins use.                    *)
(***************************************************************************)
Color(r, g, b, a) == [red |-> r, green |-> g, blue |-> b, alpha |-> a]

white == Color(Whole(255), Whole(255), Whole(255), Whole(1))
black == Color(Whole(0), Whole(0), Whole(0), Whole(1))

Clamp(x, lo, hi) == RMax(lo, RMin(x, hi))

\* rgba($red, $green, $blue, $alpha)
rgba(r, g, b, a) ==
    Color(Clamp(r, Whole(0), Whole(255)), Clamp(g, Whole(0), Whole(255)),
          Clamp(b, Whole(0), Whole(255)), Clamp(a, Whole(0), Whole(1)))

\* color.channel($color, $channel, $space: rgb)
channel(color, name) ==
    CASE name = "red"   -> color.red
      [] name = "green" -> color.green
      [] name = "blue"  -> color.blue
      [] name = "alpha" -> color.alpha

\* color.mix with the weight applied to the second colour
mix_weight_swapped(color1, color2, weight) ==
    LET weightScale      == Rat(100 - weight, 100)
        normalizedWeight == RSub(RMul(weightScale, Whole(2)), Whole(1))
        alphaDistance    == RSub(color1.alpha, color2.alpha)
        product          == RMul(normalizedWeight, alphaDistance)
        combinedWeight1  ==
            IF product = Whole(-1)
            THEN normalizedWeight
            ELSE RDiv(RAdd(normalizedWeight, alphaDistance),
                      RAdd(Whole(1), product))
        weight1 == RDiv(RAdd(combinedWeight1, Whole(1)), Whole(2))
        weight2 == RSub(Whole(1), weight1)
        ch(a, b) == RAdd(RMul(a, weight1), RMul(b, weight2))
    IN  Color(ch(color1.red, color2.red),
              ch(color1.green, color2.green),
              ch(color1.blue, color2.blue),
              RAdd(RMul(color1.alpha, weightScale),
                   RMul(color2.alpha, RSub(Whole(1), weightScale))))

\* color.mix($color1, $color2, $weight) for two rgb colours, $weight in percent.
\* The weight given to $color1 folds in the difference of the two alphas;
\* the alpha of the result is the plain weighted mean.
mix(color1, color2, weight) ==
    LET weightScale      == Rat(weight, 100)
        normalizedWeight == RSub(RMul(weightScale, Whole(2)), Whole(1))
        alphaDistance    == RSub(color1.alpha, color2.alpha)
        product          == RMul(normalizedWeight, alphaDistance)
        combinedWeight1  ==
            IF product = Whole(-1)
            THEN normalizedWeight
            ELSE RDiv(RAdd(normalizedWeight, alphaDistance),
                      RAdd(Whole(1), product))
        weight1 == RDiv(RAdd(combinedWeight1, Whole(1)), Whole(2))
        weight2 == RSub(Whole(1), weight1)
        ch(a, b) == RAdd(RMul(a, weight1), RMul(b, weight2))
    IN  Color(ch(color1.red, color2.red),
              ch(color1.green, color2.green),
              ch(color1.blue, color2.blue),
              RAdd(RMul(color1.alpha, weightScale),
                   RMul(color2.alpha, RSub(Whole(1), weightScale))))

\* an unquoted identifier (flex, center, row, column, uppercase)
Ident(word) == [ident |-> word]

\* a quoted string, written out with its quotes
Quoted(text) == [string |-> text]

\* a declaration  prop: value;
Decl(prop, value) == [prop |-> prop, value |-> value]

\* a class rule  selector { declarations }
Rule(selector, declarations) == [selector |-> selector, decls |-> declarations]

\* what one @include emits
Emitted(rs, ds) == [rules |-> rs, decls |-> ds]

(***************************************************************************)
(* The mixins and the function.                                            *)
(***************************************************************************)
\* generate-palette with token 6 taking the lighter-1 colour
generate_palette_base_slip(base_color, name) ==
    LET lightest  == mix(white, base_color, 95)
        lighter_4 == mix(white, base_color, 85)
        lighter_3 == mix(white, base_color, 80)
        lighter_2 == mix(white, base_color, 70)
        lighter_1 == mix(white, base_color, 50)
        base      == base_color
        darker_1  == mix(black, base_color, 30)
        darker_2  == mix(black, base_color, 60)
    IN  Emitted(<<>>,
          << Decl("--" \o name \o "-1", lightest),
             Decl("--" \o name \o "-2", lighter_4),
             Decl("--" \o name \o "-3", lighter_3),
             Decl("--" \o name \o "-4", lighter_2),
             Decl("--" \o name \o "-5", lighter_1),
             Decl("--" \o name \o "-6", lighter_1),
             Decl("--" \o name \o "-7", mix(base, darker_1, 50)),
             Decl("--" \o name \o "-8", darker_1),
             Decl("--" \o name \o "-9", darker_2) >>)

\* generate-palette with the lightest mix at 90% instead of 95%
generate_palette_weight_typo(base_color, name) ==
    LET lightest  == mix(white, base_color, 90)
        lighter_4 == mix(white, base_color, 85)
        lighter_3 == mix(white, base_color, 80)
        lighter_2 == mix(white, base_color, 70)
        lighter_1 == mix(white, base_color, 50)
        base      == base_color
        darker_1  == mix(black, base_color, 30)
        darker_2  == mix(black, base_color, 60)
    IN  Emitted(<<>>,
          << Decl("--" \o name \o "-1", lightest),
             Decl("--" \o name \o "-2", lighter_4),
             Decl("--" \o name \o "-3", lighter_3),
             Decl("--" \o name \o "-4", lighter_2),
             Decl("--" \o name \o "-5", lighter_1),
             Decl("--" \o name \o "-6", base),
             Decl("--" \o name \o "-7", mix(base, darker_1, 50)),
             Decl("--" \o name \o "-8", darker_1),
             Decl("--" \o name \o "-9", darker_2) >>)

generate_palette(base_color, name) ==
    LET lightest  == mix(white, base_color, 95)
        lighter_4 == mix(white, base_color, 85)
        lighter_3 == mix(white, base_color, 80)
        lighter_2 == mix(white, base_color, 70)
        lighter_1 == mix(white, base_color, 50)
        base      == base_color
        darker_1  == mix(black, base_color, 30)
        darker_2  == mix(black, base_color, 60)
    IN  Emitted(<<>>,
          << Decl("--" \o name \o "-1", lightest),
             Decl("--" \o name \o "-2", lighter_4),
             Decl("--" \o name \o "-3", lighter_3),
             Decl("--" \o name \o "-4", lighter_2),
             Decl("--" \o name \o "-5", lighter_1),
             Decl("--" \o name \o "-6", base),
             Decl("--" \o name \o "-7", mix(base, darker_1, 50)),
             Decl("--" \o name \o "-8", darker_1),
             Decl("--" \o name \o "-9", darker_2) >>)

\* generate-layouts-overlay reading the blue channel for green
generate_layouts_overlay_channel_slip(base_color, color_name) ==
    LET base_r == channel(base_color, "red")
        base_g == channel(base_color, "blue")
        base_b == channel(base_color, "blue")
        overlay_1 == rgba(base_r, base_g, base_b, Rat(1, 10))
        overlay_2 == rgba(base_r, base_g, base_b, Rat(2, 10))
        overlay_4 == rgba(base_r, base_g, base_b, Rat(4, 10))
        overlay_7 == rgba(base_r, base_g, base_b, Rat(7, 10))
    IN  Emitted(<<>>,
          << Decl("--" \o color_name \o "-overlay-1", overlay_1),
             Decl("--" \o color_name \o "-overlay-2", overlay_2),
             Decl("--" \o color_name \o "-overlay-4", overlay_4),
             Decl("--" \o color_name \o "-overlay-7", overlay_7) >>)

generate_layouts_overlay(base_color, color_name) ==
    LET base_r == channel(base_color, "red")
        base_g == channel(base_color, "green")
        base_b == channel(base_color, "blue")
        overlay_1 == rgba(base_r, base_g, base_b, Rat(1, 10))
        overlay_2 == rgba(base_r, base_g, base_b, Rat(2, 10))
        overlay_4 == rgba(base_r, base_g, base_b, Rat(4, 10))
        overlay_7 == rgba(base_r, base_g, base_b, Rat(7, 10))
    IN  Emitted(<<>>,
          << Decl("--" \o color_name \o "-overlay-1", overlay_1),
             Decl("--" \o color_name \o "-overlay-2", overlay_2),
             Decl("--" \o color_name \o "-overlay-4", overlay_4),
             Decl("--" \o color_name \o "-overlay-7", overlay_7) >>)

\* font-sizes with tiny mistyped as 12px in both lists
font_sizes_tiny_12(prefix) ==
    Emitted(
      << Rule("." \o prefix \o "-xl",      << Decl("font-size", Num(24, "px")) >>),
         Rule("." \o prefix \o "-l",       << Decl("font-size", Num(20, "px")) >>),
         Rule("." \o prefix \o "-m",       << Decl("font-size", Num(18, "px")) >>),
         Rule("." \o prefix \o "-default", << Decl("font-size", Num(16, "px")) >>),
         Rule("." \o prefix \o "-sm",      << Decl("font-size", Num(14, "px")) >>),
         Rule("." \o prefix \o "-xs",      << Decl("font-size", Num(12, "px")) >>),
         Rule("." \o prefix \o "-tiny",    << Decl("font-size", Num(12, "px")) >>),
         Rule("." \o prefix \o "-tiny-caps",
              << Decl("font-size", Num(10, "px")),
                 Decl("text-transform", Ident("uppercase")) >>) >>,
      << Decl("--" \o prefix \o "-xl",        Num(24, "px")),
         Decl("--" \o prefix \o "-l",         Num(20, "px")),
         Decl("--" \o prefix \o "-m",         Num(18, "px")),
         Decl("--" \o prefix \o "-default",   Num(16, "px")),
         Decl("--" \o prefix \o "-sm",        Num(14, "px")),
         Decl("--" \o prefix \o "-xs",        Num(12, "px")),
         Decl("--" \o prefix \o "-tiny",      Num(12, "px")),
         Decl("--" \o prefix \o "-tiny-caps", Num(10, "px")) >>)

\* font-sizes with the sm token edited without its class
font_sizes_token_drift(prefix) ==
    Emitted(
      << Rule("." \o prefix \o "-xl",      << Decl("font-size", Num(24, "px")) >>),
         Rule("." \o prefix \o "-l",       << Decl("font-size", Num(20, "px")) >>),
         Rule("." \o prefix \o "-m",       << Decl("font-size", Num(18, "px")) >>),
         Rule("." \o prefix \o "-default", << Decl("font-size", Num(16, "px")) >>),
         Rule("." \o prefix \o "-sm",      << Decl("font-size", Num(14, "px")) >>),
         Rule("." \o prefix \o "-xs",      << Decl("font-size", Num(12, "px")) >>),
         Rule("." \o prefix \o "-tiny",    << Decl("font-size", Num(11, "px")) >>),
         Rule("." \o prefix \o "-tiny-caps",
              << Decl("font-size", Num(10, "px")),
                 Decl("text-transform", Ident("uppercase")) >>) >>,
      << Decl("--" \o prefix \o "-xl",        Num(24, "px")),
         Decl("--" \o prefix \o "-l",         Num(20, "px")),
         Decl("--" \o prefix \o "-m",         Num(18, "px")),
         Decl("--" \o prefix \o "-default",   Num(16, "px")),
         Decl("--" \o prefix \o "-sm",        Num(13, "px")),
         Decl("--" \o prefix \o "-xs",        Num(12, "px")),
         Decl("--" \o prefix \o "-tiny",      Num(11, "px")),
         Decl("--" \o prefix \o "-tiny-caps", Num(10, "px")) >>)

font_sizes(prefix) ==
    Emitted(
      << Rule("." \o prefix \o "-xl",      << Decl("font-size", Num(24, "px")) >>),
         Rule("." \o prefix \o "-l",       << Decl("font-size", Num(20, "px")) >>),
         Rule("." \o prefix \o "-m",       << Decl("font-size", Num(18, "px")) >>),
         Rule("." \o prefix \o "-default", << Decl("font-size", Num(16, "px")) >>),
         Rule("." \o prefix \o "-sm",      << Decl("font-size", Num(14, "px")) >>),
         Rule("." \o prefix \o "-xs",      << Decl("font-size", Num(12, "px")) >>),
         Rule("." \o prefix \o "-tiny",    << Decl("font-size", Num(11, "px")) >>),
         Rule("." \o prefix \o "-tiny-caps",
              << Decl("font-size", Num(10, "px")),
                 Decl("text-transform", Ident("uppercase")) >>) >>,
      << Decl("--" \o prefix \o "-xl",        Num(24, "px")),
         Decl("--" \o prefix \o "-l",         Num(20, "px")),
         Decl("--" \o prefix \o "-m",         Num(18, "px")),
         Decl("--" \o prefix \o "-default",   Num(16, "px")),
         Decl("--" \o prefix \o "-sm",        Num(14, "px")),
         Decl("--" \o prefix \o "-xs",        Num(12, "px")),
         Decl("--" \o prefix \o "-tiny",      Num(11, "px")),
         Decl("--" \o prefix \o "-tiny-caps", Num(10, "px")) >>)

\* font-weights with semibold mistyped as 500 in both lists
font_weights_semibold_500(prefix) ==
    Emitted(
      << Rule("." \o prefix \o "-light",    << Decl("font-weight", Num(300, "")) >>),
         Rule("." \o prefix \o "-regular",  << Decl("font-weight", Num(400, "")) >>),
         Rule("." \o prefix \o "-semibold", << Decl("font-weight", Num(500, "")) >>),
         Rule("." \o prefix \o "-bold",     << Decl("font-weight", Num(700, "")) >>),
         Rule("." \o prefix \o "-black",    << Decl("font-weight", Num(800, "")) >>) >>,
      << Decl("--" \o prefix \o "-light",    Num(300, "")),
         Decl("--" \o prefix \o "-regular",  Num(400, "")),
         Decl("--" \o prefix \o "-semibold", Num(500, "")),
         Decl("--" \o prefix \o "-bold",     Num(700, "")),
         Decl("--" \o prefix \o "-black",    Num(800, "")) >>)

\* font-weights with the black token keeping the name of bold
font_weights_name_reused(prefix) ==
    Emitted(
      << Rule("." \o prefix \o "-light",    << Decl("font-weight", Num(300, "")) >>),
         Rule("." \o prefix \o "-regular",  << Decl("font-weight", Num(400, "")) >>),
         Rule("." \o prefix \o "-semibold", << Decl("font-weight", Num(600, "")) >>),
         Rule("." \o prefix \o "-bold",     << Decl("font-weight", Num(700, "")) >>),
         Rule("." \o prefix \o "-black",    << Decl("font-weight", Num(800, "")) >>) >>,
      << Decl("--" \o prefix \o "-light",    Num(300, "")),
         Decl("--" \o prefix \o "-regular",  Num(400, "")),
         Decl("--" \o prefix \o "-semibold", Num(600, "")),
         Decl("--" \o prefix \o "-bold",     Num(700, "")),
         Decl("--" \o prefix \o "-bold",     Num(800, "")) >>)

font_weights(prefix) ==
    Emitted(
      << Rule("." \o prefix \o "-light",    << Decl("font-weight", Num(300, "")) >>),
         Rule("." \o prefix \o "-regular",  << Decl("font-weight", Num(400, "")) >>),
         Rule("." \o prefix \o "-semibold", << Decl("font-weight", Num(600, "")) >>),
         Rule("." \o prefix \o "-bold",     << Decl("font-weight", Num(700, "")) >>),
         Rule("." \o prefix \o "-black",    << Decl("font-weight", Num(800, "")) >>) >>,
      << Decl("--" \o prefix \o "-light",    Num(300, "")),
         Decl("--" \o prefix \o "-regular",  Num(400, "")),
         Decl("--" \o prefix \o "-semibold", Num(600, "")),
         Decl("--" \o prefix \o "-bold",     Num(700, "")),
         Decl("--" \o prefix \o "-black",    Num(800, "")) >>)

flex_centered(flex_direction, gap) ==
    Emitted(<<>>,
      << Decl("display", Ident("flex")),
         Decl("justify-content", Ident("center")),
         Decl("align-items", Ident("center")),
         Decl("flex-direction", flex_direction),
         Decl("gap", gap) >>)

\* scale with the base unit mistyped as 10px
scale_base_10(multiple) ==
    LET base == Num(10, "px")
    IN  Times(base, multiple)

scale(multiple) ==
    LET base == Num(8, "px")
    IN  Times(base, multiple)

(***************************************************************************)
(* Inputs.                                                                 *)
(***************************************************************************)
Channels == { Whole((255 * i) \div ChannelSteps) : i \in 0..ChannelSteps }

Alphas == { Rat(4 - i, 4) : i \in 0..AlphaSteps }

BaseColors == { Color(r, g, b, a) : r \in Channels, g \in Channels,
                                    b \in Channels, a \in Alphas }

\* prefixes and colour names a style sheet passes
Names == {"primary", "secondary", "font", "font-weight", "fw"}

Multiples == { [value |-> Rat(k, 10), unit |-> ""] :
                 k \in (-10 * MaxMultiple)..(10 * MaxMultiple) }
             \cup { [value |-> Rat(1, 4), unit |-> ""],
                    [value |-> Rat(1, 3), unit |-> ""] }

\* directions and gaps a style sheet passes to flex-centered
Directions == { Ident("row"), Ident("column") }

Gaps == { Num(8, "px"), Num(16, "px"), Quoted("8px") }

NoValue == [value |-> Whole(0), unit |-> "none"]

\* the uses a style sheet can make: the mixin or function and its arguments
\* (default = TRUE when the optional argument is left out; given = the number
\* of arguments passed to flex-centered)
Calls ==
    { <<"generate-palette", [color |-> c, name |-> n, default |-> FALSE]>> :
        c \in BaseColors, n \in Names }
    \cup { <<"generate-palette", [color |-> c, name |-> "primary", default |-> TRUE]>> :
        c \in BaseColors }
    \cup { <<"generate-layouts-overlay", [color |-> c, name |-> n, default |-> FALSE]>> :
        c \in BaseColors, n \in Names }
    \cup { <<"font-sizes", [name |-> n, default |-> FALSE]>> : n \in Names }
    \cup { <<"font-sizes", [name |-> "font", default |-> TRUE]>> }
    \cup { <<"font-weights", [name |-> n, default |-> FALSE]>> : n \in Names }
    \cup { <<"font-weights", [name |-> "font-weight", default |-> TRUE]>> }
    \cup { <<"flex-centered", [direction |-> d, gap |-> g, given |-> 2]>> :
        d \in Directions, g \in Gaps }
    \cup { <<"flex-centered", [direction |-> d, gap |-> Quoted("8px"), given |-> 1]>> :
        d \in Directions }
    \cup { <<"flex-centered",
             [direction |-> Ident("row"), gap |-> Quoted("8px"), given |-> 0]>> }
    \cup { <<"scale", [multiple |-> m]>> : m \in Multiples }

(***************************************************************************)
(* One use, evaluated once.                                                *)
(***************************************************************************)
Init ==
    /\ \E call \in Calls : mixin = call[1] /\ args = call[2]
    /\ pc = "pending"
    /\ rules = <<>>
    /\ decls = <<>>
    /\ ret = NoValue
    /\ error = "none"

Emit(e) ==
    /\ pc' = "done"
    /\ rules' = e.rules
    /\ decls' = e.decls
    /\ UNCHANGED <<mixin, args, ret, error>>

\* @include generate-palette($base-color, $name)
IncludeGeneratePalette ==
    /\ pc = "pending" /\ mixin = "generate-palette" /\ ~args.default
    /\ Emit(generate_palette(args.color, args.name))

\* @include generate-palette($base-color)      ($name: 'primary')
IncludeGeneratePaletteDefault ==
    /\ pc = "pending" /\ mixin = "generate-palette" /\ args.default
    /\ Emit(generate_palette(args.color, "primary"))

\* @include generate-layouts-overlay($base-color, $color-name)
IncludeGenerateLayoutsOverlay ==
    /\ pc = "pending" /\ mixin = "generate-layouts-overlay"
    /\ Emit(generate_layouts_overlay(args.color, args.name))

\* @include font-sizes($prefix)
IncludeFontSizes ==
    /\ pc = "pending" /\ mixin = "font-sizes" /\ ~args.default
    /\ Emit(font_sizes(args.name))

\* @include font-sizes()                       ($prefix: 'font')
IncludeFontSizesDefault ==
    /\ pc = "pending" /\ mixin = "font-sizes" /\ args.default
    /\ Emit(font_sizes("font"))

\* @include font-weights($prefix)
IncludeFontWeights ==
    /\ pc = "pending" /\ mixin = "font-weights" /\ ~args.default
    /\ Emit(font_weights(args.name))

\* @include font-weights()                     ($prefix: 'font-weight')
IncludeFontWeightsDefault ==
    /\ pc = "pending" /\ mixin = "font-weights" /\ args.default
    /\ Emit(font_weights("font-weight"))

\* @include flex-centered($flex-direction, $gap)
IncludeFlexCentered ==
    /\ pc = "pending" /\ mixin = "flex-centered" /\ args.given = 2
    /\ Emit(flex_centered(args.direction, args.gap))

\* @include flex-centered($flex-direction)     ($gap: '8px')
IncludeFlexCenteredDirection ==
    /\ pc = "pending" /\ mixin = "flex-centered" /\ args.given = 1
    /\ Emit(flex_centered(args.direction, Quoted("8px")))

\* @include flex-centered()                    ($flex-direction: row, $gap: '8px')
IncludeFlexCenteredDefault ==
    /\ pc = "pending" /\ mixin = "flex-centered" /\ args.given = 0
    /\ Emit(flex_centered(Ident("row"), Quoted("8px")))

\* scale($multiple)
CallScale ==
    /\ pc = "pending" /\ mixin = "scale"
    /\ pc' = "done"
    /\ ret' = scale(args.multiple)
    /\ UNCHANGED <<mixin, args, rules, decls, error>>

Next ==
    \/ IncludeGeneratePalette
    \/ IncludeGeneratePaletteDefault
    \/ IncludeGenerateLayoutsOverlay
    \/ IncludeFontSizes
    \/ IncludeFontSizesDefault
    \/ IncludeFontWeights
    \/ IncludeFontWeightsDefault
    \/ IncludeFlexCentered
    \/ IncludeFlexCenteredDirection
    \/ IncludeFlexCenteredDefault
    \/ CallScale

Spec == Init /\ [][Next]_vars

(***************************************************************************)
(* Properties.                                                             *)
(***************************************************************************)
Done(m) == pc = "done" /\ mixin = m

\* a whole number, or exactly 0.5
ValidMultiple(m) == m.value[2] = 1 \/ m.value = <<1, 2>>

\* C1: scale fails with an InvalidMultipleError, and returns no value, for
\* every multiple that is neither a whole number nor exactly 0.5.
C1_InvalidMultipleFails ==
    (Done("scale") /\ ~ValidMultiple(args.multiple))
        => (error = "InvalidMultipleError" /\ ret = NoValue)

\* C2: for every valid multiple m (a whole number, or 0.5), scale(m) returns
\* exactly 8px times m, without an error: scale(3) = 24px, scale(2) = 16px,
\* scale(0.5) = 4px.
C2_ScaleIsEightTimesMultiple ==
    (Done("scale") /\ ValidMultiple(args.multiple)) =>
        LET m == args.multiple.value
        IN  /\ error = "none"
            /\ ret.unit = "px"
            /\ ret.value[2] > 0
            /\ ret.value[1] * m[2] = 8 * m[1] * ret.value[2]
            /\ (m = <<3, 1>> => ret.value = <<24, 1>>)
            /\ (m = <<2, 1>> => ret.value = <<16, 1>>)
            /\ (m = <<1, 2>> => ret.value = <<4, 1>>)

C2_Witness ==
    /\ Done("scale")
    /\ args.multiple.value = <<1, 2>>
    /\ ret = [value |-> <<4, 1>>, unit |-> "px"]

Digits == <<"1", "2", "3", "4", "5", "6", "7", "8", "9">>

\* C3: for every base colour c and prefix p, generate-palette emits exactly
\* 9 tokens, named --p-1 to --p-9 in that order, and the value of token 6
\* is c itself.
C3_NineTokensBaseAtSix ==
    Done("generate-palette") =>
        /\ Len(decls) = 9
        /\ rules = <<>>
        /\ \A i \in 1..9 : decls[i].prop = "--" \o args.name \o "-" \o Digits[i]
        /\ decls[6].value = args.color

C3_Witness ==
    /\ Done("generate-palette")
    /\ args.name = "secondary"
    /\ args.color = Color(<<85, 1>>, <<170, 1>>, <<255, 1>>, <<3, 4>>)
    /\ decls[6] = [prop |-> "--secondary-6", value |-> args.color]
    /\ decls[1].value # args.color

\* plain linear interpolation of two colours, w percent of x and the rest of y
Lerp(x, y, w) ==
    LET l(a, b) == <<a[1] * b[2] * w + b[1] * a[2] * (100 - w), 100 * a[2] * b[2]>>
    IN  [red |-> l(x.red, y.red), green |-> l(x.green, y.green),
         blue |-> l(x.blue, y.blue), alpha |-> l(x.alpha, y.alpha)]

\* equality of two rationals of which the second need not be in lowest terms
REq(a, b) == a[1] * b[2] = b[1] * a[2]

SameChannels(x, y) ==
    REq(x.red, y.red) /\ REq(x.green, y.green) /\ REq(x.blue, y.blue)

SameAlpha(x, y) == REq(x.alpha, y.alpha)

\* token i of the palette is the linear mix of w percent of x and the rest of y
LinearToken(i, x, y, w) ==
    SameChannels(decls[i].value, Lerp(x, y, w))
        /\ SameAlpha(decls[i].value, Lerp(x, y, w))

FixedLinearMixes ==
    LET c == args.color
    IN  /\ LinearToken(1, white, c, 95)
        /\ LinearToken(2, white, c, 85)
        /\ LinearToken(3, white, c, 80)
        /\ LinearToken(4, white, c, 70)
        /\ LinearToken(5, white, c, 50)
        /\ LinearToken(8, black, c, 30)
        /\ LinearToken(9, black, c, 60)
        /\ LinearToken(7, c, decls[8].value, 50)

\* C4 as stated: for every base colour c, tokens 1..5 are c mixed with
\* white at white-weights 95, 85, 80, 70, 50 percent, token 8 and 9 are c
\* mixed with black at 30 and 60 percent, token 7 is the 50/50 mix of c and
\* token 8, each a plain linear mix.
C4_Original_FixedLinearMixes ==
    Done("generate-palette") => FixedLinearMixes

\* C4 amended: the tokens are those fixed linear mixes for every opaque
\* base colour (alpha 1); for every base colour the alpha of tokens 1..5,
\* 8, 9 and 7 is the linear mix of the two alphas at those weights.
C4_OpaqueFixedLinearMixes ==
    Done("generate-palette") =>
        LET c == args.color
            alphaOf(i, x, y, w) == SameAlpha(decls[i].value, Lerp(x, y, w))
        IN  /\ (c.alpha = <<1, 1>> => FixedLinearMixes)
            /\ alphaOf(1, white, c, 95) /\ alphaOf(2, white, c, 85)
            /\ alphaOf(3, white, c, 80) /\ alphaOf(4, white, c, 70)
            /\ alphaOf(5, white, c, 50) /\ alphaOf(8, black, c, 30)
            /\ alphaOf(9, black, c, 60) /\ alphaOf(7, c, decls[8].value, 50)

C4_Witness ==
    /\ Done("generate-palette")
    /\ args.color = Color(<<0, 1>>, <<85, 1>>, <<255, 1>>, <<1, 1>>)
    /\ decls[1].value = Color(<<969, 4>>, <<493, 2>>, <<255, 1>>, <<1, 1>>)
    /\ decls[8].value = Color(<<0, 1>>, <<119, 2>>, <<357, 2>>, <<1, 1>>)
    /\ decls[7].value = Color(<<0, 1>>, <<289, 4>>, <<867, 4>>, <<1, 1>>)

\* two channel-monotone measures of lightness
ChannelSum(c) == RAdd(c.red, RAdd(c.green, c.blue))

HslLightness(c) ==
    RDiv(RAdd(RMax(c.red, RMax(c.green, c.blue)),
              RMin(c.red, RMin(c.green, c.blue))), <<2, 1>>)

LightToDark == <<1, 2, 3, 4, 5, 6, 8, 9>>

\* C5: for every base colour the palette runs from light to dark:
\* lightness of token 1 >= 2 >= 3 >= 4 >= 5 >= 6 >= 8 >= 9, for the sum of
\* the rgb channels and for the HSL lightness, pure white and pure black
\* included.
C5_MonotoneLightToDark ==
    Done("generate-palette") =>
        \A k \in 1..(Len(LightToDark) - 1) :
            LET lighter == decls[LightToDark[k]].value
                darker  == decls[LightToDark[k + 1]].value
            IN  /\ RLeq(ChannelSum(darker), ChannelSum(lighter))
                /\ RLeq(HslLightness(darker), HslLightness(lighter))

C5_Witness ==
    /\ Done("generate-palette")
    /\ args.color = white
    /\ \A i \in 1..6 : decls[i].value = white
    /\ decls[8].value.red = <<357, 2>>
    /\ decls[9].value.red = <<102, 1>>

\* C6: for every base colour c and name n, generate-layouts-overlay emits
\* exactly 4 tokens, --n-overlay-1, -2, -4 and -7, with alpha 0.1, 0.2, 0.4
\* and 0.7 and the red, green and blue channels of c.
C6_OverlayTokens ==
    Done("generate-layouts-overlay") =>
        LET steps  == <<"1", "2", "4", "7">>
            alphas == <<1, 2, 4, 7>>
        IN  /\ Len(decls) = 4
            /\ rules = <<>>
            /\ \A i \in 1..4 :
                /\ decls[i].prop = "--" \o args.name \o "-overlay-" \o steps[i]
                /\ REq(decls[i].value.alpha, <<alphas[i], 10>>)
                /\ decls[i].value.red = args.color.red
                /\ decls[i].value.green = args.color.green
                /\ decls[i].value.blue = args.color.blue

C6_Witness ==
    /\ Done("generate-layouts-overlay")
    /\ args.name = "primary"
    /\ args.color = Color(<<0, 1>>, <<85, 1>>, <<170, 1>>, <<3, 4>>)
    /\ decls[3] = [prop |-> "--primary-overlay-4",
                   value |-> Color(<<0, 1>>, <<85, 1>>, <<170, 1>>, <<2, 5>>)]

\* C7: font-sizes with the default prefix emits exactly the 8 tokens
\* --font-xl=24px, --font-l=20px, --font-m=18px, --font-default=16px,
\* --font-sm=14px, --font-xs=12px, --font-tiny=11px, --font-tiny-caps=10px,
\* in that order, strictly descending.
C7_DefaultFontSizes ==
    (Done("font-sizes") /\ args.default) =>
        LET names == <<"--font-xl", "--font-l", "--font-m", "--font-default",
                       "--font-sm", "--font-xs", "--font-tiny", "--font-tiny-caps">>
            sizes == <<24, 20, 18, 16, 14, 12, 11, 10>>
        IN  /\ Len(decls) = 8
            /\ \A i \in 1..8 :
                /\ decls[i].prop = names[i]
                /\ decls[i].value = [value |-> <<sizes[i], 1>>, unit |-> "px"]
            /\ \A i \in 1..7 :
                decls[i].value.value[1] > decls[i + 1].value.value[1]

C7_Witness ==
    /\ Done("font-sizes") /\ args.default
    /\ decls[1] = [prop |-> "--font-xl", value |-> [value |-> <<24, 1>>, unit |-> "px"]]
    /\ decls[8] = [prop |-> "--font-tiny-caps",
                   value |-> [value |-> <<10, 1>>, unit |-> "px"]]

\* C8: font-weights with the default prefix emits exactly the 5 tokens
\* font-weight-light=300, -regular=400, -semibold=600, -bold=700,
\* -black=800, in that order, strictly ascending.
C8_DefaultFontWeights ==
    (Done("font-weights") /\ args.default) =>
        LET names   == <<"--font-weight-light", "--font-weight-regular",
                         "--font-weight-semibold", "--font-weight-bold",
                         "--font-weight-black">>
            weights == <<300, 400, 600, 700, 800>>
        IN  /\ Len(decls) = 5
            /\ \A i \in 1..5 :
                /\ decls[i].prop = names[i]
                /\ decls[i].value = [value |-> <<weights[i], 1>>, unit |-> ""]
            /\ \A i \in 1..4 :
                decls[i].value.value[1] < decls[i + 1].value.value[1]

C8_Witness ==
    /\ Done("font-weights") /\ args.default
    /\ decls[1] = [prop |-> "--font-weight-light",
                   value |-> [value |-> <<300, 1>>, unit |-> ""]]
    /\ decls[5] = [prop |-> "--font-weight-black",
                   value |-> [value |-> <<800, 1>>, unit |-> ""]]

Generators ==
    {"generate-palette", "generate-layouts-overlay", "font-sizes", "font-weights"}

\* C9: within one use of a generator, for every prefix, no two emitted
\* tokens share a name (nor do two emitted class rules share a selector).
C9_NamesDistinct ==
    (pc = "done" /\ mixin \in Generators) =>
        /\ Len(decls) > 0
        /\ \A i, j \in 1..Len(decls) : i # j => decls[i].prop # decls[j].prop
        /\ \A i, j \in 1..Len(rules) : i # j => rules[i].selector # rules[j].selector

C9_Witness ==
    /\ Done("font-sizes")
    /\ args.name = "font-weight"
    /\ decls[7].prop = "--font-weight-tiny"
    /\ decls[8].prop = "--font-weight-tiny-caps"

Suffixes ==
    {"-xl", "-l", "-m", "-default", "-sm", "-xs", "-tiny", "-tiny-caps",
     "-light", "-regular", "-semibold", "-bold", "-black"}

\* C10: for font-sizes and font-weights and every prefix, the class rules
\* and the tokens carry the same ordered list of (suffix, value) pairs; the
\* only class-level declaration without a token is the uppercase text
\* transform of tiny-caps.
C10_ClassesAndTokensInSync ==
    (pc = "done" /\ mixin \in {"font-sizes", "font-weights"}) =>
        LET property == IF mixin = "font-sizes" THEN "font-size" ELSE "font-weight"
        IN  /\ Len(rules) = Len(decls)
            /\ \A i \in 1..Len(rules) :
                /\ \E s \in Suffixes :
                    /\ rules[i].selector = "." \o args.name \o s
                    /\ decls[i].prop = "--" \o args.name \o s
                    /\ Len(rules[i].decls) = (IF s = "-tiny-caps" THEN 2 ELSE 1)
                /\ rules[i].decls[1].prop = property
                /\ rules[i].decls[1].value = decls[i].value
                /\ Len(rules[i].decls) = 2 =>
                       rules[i].decls[2] =
                           [prop |-> "text-transform", value |-> [ident |-> "uppercase"]]

C10_Witness ==
    /\ Done("font-sizes")
    /\ args.name = "fw"
    /\ rules[8].selector = ".fw-tiny-caps"
    /\ decls[8].prop = "--fw-tiny-caps"
    /\ rules[8].decls[1].value = decls[8].value
    /\ Len(rules[8].decls) = 2

====
